---- MODULE Spec2Model ----
(***************************************************************************)
(* A model of src/app.py: one Streamlit script whose main() reads four     *)
(* sliders, generates clustered 2-D data, splits and scales it, fits and   *)
(* evaluates six classifiers and renders one tab per classifier.           *)
(*                                                                         *)
(* Real numbers are fixed-point integers: 1.0 is One units, and the mesh   *)
(* step 0.01 of visualize_classifier is Resolution units.  The library     *)
(* routines the script calls (NumPy's generators, make_blobs,              *)
(* train_test_split, StandardScaler, the classifiers, the metrics) are not *)
(* part of the repository; each is modelled as a deterministic function of *)
(* its arguments and of the random generator it draws from, with the       *)
(* shapes, label sets and preconditions the libraries document.            *)
(***************************************************************************)
EXTENDS Integers, Sequences, FiniteSets, TLC

(* ------------------------------------------------------------------ *)
(* Bounds of the model                                                 *)
(* ------------------------------------------------------------------ *)
\* Script runs (the first run and the reruns) in one process.
MaxRuns == 2
\* Possible initial keys of the process-global NumPy generator.
NumEntropy == 2
\* Fixed-point units per mesh step (0.01).
Resolution == 2
\* Modulus of the generators' output.
RngMod == 1024
\* Largest number of samples handed to visualize_classifier on its own.
MeshPoints == 2

(* ------------------------------------------------------------------ *)
(* Program constants                                                   *)
(* ------------------------------------------------------------------ *)
\* 1.0 / mesh_step_size
StepsPerOne == 100
One == StepsPerOne * Resolution
\* visualize_classifier pads the data range by 1.0 on both sides
Margin == One
mesh_step_size == Resolution

\* st.slider("Number of Samples", 300, 1000, 500)
SamplesMin == 300
SamplesMax == 1000
SamplesDefault == 500
\* st.slider("Cluster Standard Deviation", 0.1, 3.0, 0.5), in tenths
StdMinTenths == 1
StdMaxTenths == 30
StdDefaultTenths == 5
\* st.slider("Random State", 0, 100, 42)
RandomStateMin == 0
RandomStateMax == 100
RandomStateDefault == 42
\* st.slider("Number of Clusters", 2, 6, 2)
ClustersMin == 2
ClustersMax == 6
ClustersDefault == 2
\* np.random.seed(42)
CentersSeed == 42
\* generate_random_points_in_square(-4, 4, -4, 4, n_clusters)
SquareHalfSide == 4
\* train_test_split(..., test_size=0.3, ...), in tenths
TestSizeTenths == 3
\* KNeighborsClassifier(): n_neighbors defaults to 5
KnnNeighbors == 5

(* ------------------------------------------------------------------ *)
(* Arithmetic helpers                                                  *)
(* ------------------------------------------------------------------ *)
Abs(a) == IF a < 0 THEN -a ELSE a

RECURSIVE GCD(_, _)
GCD(a, b) == IF b = 0 THEN a ELSE GCD(b, a % b)

\* Sum of f[lo..hi], by halving (recursion depth logarithmic in the length).
RECURSIVE SumRange(_, _, _)
SumRange(f, lo, hi) ==
    IF lo > hi THEN 0
    ELSE IF lo = hi THEN f[lo]
    ELSE LET mid == (lo + hi) \div 2
         IN  SumRange(f, lo, mid) + SumRange(f, mid + 1, hi)

SumSeq(s) == SumRange(s, 1, Len(s))

\* Sum of the first n values of f.
SumFirst(f, n) == SumRange(f, 1, n)

\* Integer square root, by bisection.
RECURSIVE ISqrtIn(_, _, _)
ISqrtIn(v, lo, hi) ==
    IF lo >= hi THEN lo
    ELSE LET mid == (lo + hi + 1) \div 2
         IN  IF mid * mid <= v THEN ISqrtIn(v, mid, hi) ELSE ISqrtIn(v, lo, mid - 1)

ISqrt(v) == ISqrtIn(v, 0, 40000)

Range(s) == {s[j] : j \in 1..Len(s)}

(* ------------------------------------------------------------------ *)
(* Random generators (numpy.random)                                    *)
(* A generator is a key (its seed) and a counter of the values drawn;  *)
(* the j-th value drawn is a fixed function of both.                   *)
(* ------------------------------------------------------------------ *)
Mix(key, ctr) ==
    (((key + 1) * 7919) + (ctr * 4993) + ((((key + 3) * (ctr + 1)) * 31) % 997)) % RngMod

RandomState(seed) == [key |-> seed, ctr |-> 0]

\* The j-th next value of generator g, in 0..RngMod-1.
Peek(g, j) == Mix(g.key, g.ctr + j)

Advance(g, n) == [g EXCEPT !.ctr = @ + n]

\* rng.uniform(low, high): low + (high - low) * u with u in [0, 1).
Uniform(low, high, u) == low + ((high - low) * u) \div RngMod

\* rng.normal(loc, scale): loc + scale * z, z one of nine values in [-2, 2].
Normal(loc, scale, u) == loc + (scale * (((u * 9) \div RngMod) - 4)) \div 2

\* rng.permutation(n): a bijection on 1..n determined by the generator.
Multiplier(n, u) == CHOOSE a \in ((u % n) + 1)..((u % n) + n) : GCD(a, n) = 1

Permutation(g, n) ==
    LET a == Multiplier(n, Peek(g, 0))
        b == Peek(g, 1) % n
    IN  [j \in 1..n |-> (((a * (j - 1)) + b) % n) + 1]

(* ------------------------------------------------------------------ *)
(* Arrays: a sequence of values together with, for each position, the  *)
(* index of the generated sample the value belongs to, and where the   *)
(* array came from: which part of the data it holds ("all", "train",   *)
(* "test") and the data the scaler that produced it was fitted on      *)
(* ("none" for an unscaled array).                                     *)
(* ------------------------------------------------------------------ *)
Arr(part, scaled_by, ids, vals) ==
    [part |-> part, scaled_by |-> scaled_by, ids |-> ids, vals |-> vals]

EmptyArr == Arr("none", "none", <<>>, <<>>)

Size(a) == Len(a.vals)

\* Where an array came from.
Tag(a) == [part |-> a.part, scaled_by |-> a.scaled_by]

\* a[idx]: NumPy indexing with an index array.
Take(a, idx, part) ==
    Arr(part, a.scaled_by,
        [j \in 1..Len(idx) |-> a.ids[idx[j]]], [j \in 1..Len(idx) |-> a.vals[idx[j]]])

(* ------------------------------------------------------------------ *)
(* Data generation (lines 17-25)                                       *)
(* ------------------------------------------------------------------ *)
\* Seed without effect: the generator goes on from where it is.
SeedKeep(g, seed) == g

\* np.random.seed(seed): reseeds the process-global generator.
Seed(g, seed) == RandomState(seed)

\* generate_random_points_in_square seeding with the number of values the
\* process drew so far instead of the constant.
generate_random_points_seeded_by_use(g, x_min, x_max, y_min, y_max, n_clusters) ==
    LET g1 == Seed(g, CentersSeed + (g.key % 2) + g.ctr)
    IN  [rng     |-> Advance(g1, 2 * n_clusters),
         centers |-> [c \in 1..n_clusters |->
                        << Uniform(x_min, x_max, Peek(g1, 2 * (c - 1))),
                           Uniform(y_min, y_max, Peek(g1, (2 * (c - 1)) + 1)) >>]]

\* Lines 17-19: reseed the global generator, then draw n_clusters points.
generate_random_points_in_square(g, x_min, x_max, y_min, y_max, n_clusters) ==
    LET g1 == Seed(g, CentersSeed)
    IN  [rng     |-> Advance(g1, 2 * n_clusters),
         centers |-> [c \in 1..n_clusters |->
                        << Uniform(x_min, x_max, Peek(g1, 2 * (c - 1))),
                           Uniform(y_min, y_max, Peek(g1, (2 * (c - 1)) + 1)) >>]]

\* make_blobs: the cluster (0-based) of the j-th generated row before the
\* shuffle.  The first n % k clusters hold one row more than the others.
BlobLabel(j, n, k) ==
    LET q == n \div k
        r == n % k
        cut == r * (q + 1)
    IN  IF j <= cut THEN (j - 1) \div (q + 1) ELSE r + ((j - 1 - cut) \div q)

\* make_blobs(n_samples, n_features=2, cluster_std, centers, random_state):
\* normal samples around each centre, then one shuffle of rows and labels,
\* all drawn from a generator of its own seeded with random_state.
make_blobs(n_samples, cluster_std, centers, random_state) ==
    LET g   == RandomState(random_state)
        k   == Len(centers)
        lab == [j \in 1..n_samples |-> BlobLabel(j, n_samples, k)]
        row == [j \in 1..n_samples |->
                  << Normal(centers[lab[j] + 1][1], cluster_std, Peek(g, 2 * (j - 1))),
                     Normal(centers[lab[j] + 1][2], cluster_std, Peek(g, (2 * (j - 1)) + 1)) >>]
        p   == Permutation(Advance(g, 2 * n_samples), n_samples)
        ids == [j \in 1..n_samples |-> j]
    IN  [X |-> Arr("all", "none", ids, [j \in 1..n_samples |-> row[p[j]]]),
         y |-> Arr("all", "none", ids, [j \in 1..n_samples |-> lab[p[j]]])]

\* The slider's value (tenths) as a fixed-point number.
StdUnits(tenths) == (tenths * One) \div 10

(* ------------------------------------------------------------------ *)
(* train_test_split(X, y, test_size=0.3, random_state) (line 93)       *)
(* ------------------------------------------------------------------ *)
\* ceil(test_size * n)
TestCount(n) == ((TestSizeTenths * n) + 9) \div 10

train_test_split(X, y, random_state) ==
    LET n      == Size(X)
        n_test == TestCount(n)
        p      == Permutation(RandomState(random_state), n)
        test   == [j \in 1..n_test |-> p[j]]
        train  == [j \in 1..(n - n_test) |-> p[n_test + j]]
    IN  [X_train |-> Take(X, train, "train"), X_test |-> Take(X, test, "test"),
         y_train |-> Take(y, train, "train"), y_test |-> Take(y, test, "test")]

(* ------------------------------------------------------------------ *)
(* StandardScaler (lines 94-96)                                        *)
(* ------------------------------------------------------------------ *)
\* The mean of feature d of X.
Mean(X, d) == SumFirst([j \in 1..Size(X) |-> X.vals[j][d]], Size(X)) \div Size(X)

\* The standard deviation of feature d of X around m, computed in mesh
\* steps; a zero deviation is replaced by 1.0, as StandardScaler does.
StdDev(X, d, m) ==
    LET sq  == [j \in 1..Size(X) |->
                  ((X.vals[j][d] - m) \div Resolution) * ((X.vals[j][d] - m) \div Resolution)]
        sd  == ISqrt(SumFirst(sq, Size(X)) \div Size(X)) * Resolution
    IN  IF sd = 0 THEN One ELSE sd

\* StandardScaler(): no parameters yet.
NewScaler ==
    [mean |-> << 0, 0 >>, scale |-> << One, One >>, fitted_on |-> Tag(EmptyArr), n_fits |-> 0]

\* scaler.fit(X): the parameters, and the samples they were computed from.
ScalerFit(sc, X) ==
    LET m1 == Mean(X, 1)
        m2 == Mean(X, 2)
    IN  [mean      |-> << m1, m2 >>,
         scale     |-> << StdDev(X, 1, m1), StdDev(X, 2, m2) >>,
         fitted_on |-> Tag(X),
         n_fits    |-> sc.n_fits + 1]

\* scaler.transform(X): (x - mean) / scale, a new array.
ScalerTransform(sc, X) ==
    Arr(X.part, sc.fitted_on.part, X.ids,
        [j \in 1..Size(X) |->
           << ((X.vals[j][1] - sc.mean[1]) * One) \div sc.scale[1],
              ((X.vals[j][2] - sc.mean[2]) * One) \div sc.scale[2] >>])

(* ------------------------------------------------------------------ *)
(* The six classifiers (lines 97-104) and their fit / predict          *)
(* (lines 28-29).  Each is a nearest-centroid rule over the classes of *)
(* its training labels; the two built without a random_state that draw *)
(* from the process-global generator do so in fit.                     *)
(* ------------------------------------------------------------------ *)
ModelNames ==
    << "Logistic Regression", "Naive Bayes", "SVM", "Decision Tree", "Random Forest", "KNN" >>

NumModels == Len(ModelNames)

\* DecisionTreeClassifier() and RandomForestClassifier() have random_state=None.
DrawsFromGlobal(name) == name \in {"Decision Tree", "Random Forest"}

\* An estimator as constructed, before any fit.
Unfitted(name) ==
    [name |-> name, n_fits |-> 0, classes |-> {}, centroids |-> <<>>,
     draw |-> -1, fitted_on |-> Tag(EmptyArr), labels_of |-> Tag(EmptyArr),
     seen |-> << 0, 0, 0, 0 >>, n_train |-> 0]

\* Rows of the training set a model learns from: the forest bootstraps.
InBag(name, draw, j) == (name # "Random Forest") \/ ((j + draw) % 3 # 0)

\* The mean of the rows of class c a model learns from (all rows of the
\* class when the bag holds none of them).
Centroid(name, draw, X, y, c) ==
    LET n      == Size(X)
        bagged == SumFirst([j \in 1..n |->
                              IF y.vals[j] = c /\ InBag(name, draw, j) THEN 1 ELSE 0], n)
        all    == SumFirst([j \in 1..n |-> IF y.vals[j] = c THEN 1 ELSE 0], n)
        in(j)  == y.vals[j] = c /\ (bagged = 0 \/ InBag(name, draw, j))
        cnt    == IF bagged = 0 THEN all ELSE bagged
    IN  << SumFirst([j \in 1..n |-> IF in(j) THEN X.vals[j][1] ELSE 0], n) \div cnt,
           SumFirst([j \in 1..n |-> IF in(j) THEN X.vals[j][2] ELSE 0], n) \div cnt >>

\* A summary of the data an estimator was fitted on: the number of rows and
\* the sums of both features and of the labels.
Seen(X, y) ==
    << Size(X), SumFirst([j \in 1..Size(X) |-> X.vals[j][1]], Size(X)),
       SumFirst([j \in 1..Size(X) |-> X.vals[j][2]], Size(X)), SumSeq(y.vals) >>

\* Whether fit raises: the linear model and the SVM need two classes.
FitRaises(name, X, y) ==
    \/ Size(X) = 0
    \/ Size(X) # Size(y)
    \/ (name \in {"Logistic Regression", "SVM"} /\ Cardinality(Range(y.vals)) < 2)

\* model.fit(X, y), drawing from the global generator g where the model does.
FitModel(model, X, y, g) ==
    LET draw    == IF DrawsFromGlobal(model.name) THEN Peek(g, 0) ELSE -1
        classes == Range(y.vals)
    IN  [model |-> [name      |-> model.name,
                    n_fits    |-> model.n_fits + 1,
                    classes   |-> classes,
                    centroids |-> [c \in classes |-> Centroid(model.name, draw, X, y, c)],
                    draw      |-> draw,
                    fitted_on |-> Tag(X),
                    labels_of |-> Tag(y),
                    seen      |-> Seen(X, y),
                    n_train   |-> Size(X)],
         rng   |-> IF DrawsFromGlobal(model.name) THEN Advance(g, 1) ELSE g]

Distance(name, a, b) ==
    IF name \in {"Naive Bayes", "KNN"}
    THEN (IF Abs(a[1] - b[1]) > Abs(a[2] - b[2]) THEN Abs(a[1] - b[1]) ELSE Abs(a[2] - b[2]))
    ELSE Abs(a[1] - b[1]) + Abs(a[2] - b[2])

\* The class of one point: the nearest centroid; the tree breaks a tie by
\* the order its draw gave the candidates.
PredictOne(model, x) ==
    LET scored == {<< Distance(model.name, x, model.centroids[c]), c >> : c \in model.classes}
        lowest == CHOOSE p \in scored :
                     \A q \in scored : p[1] < q[1] \/ (p[1] = q[1] /\ p[2] <= q[2])
        highest == CHOOSE p \in scored :
                     \A q \in scored : p[1] < q[1] \/ (p[1] = q[1] /\ p[2] >= q[2])
    IN  IF model.name = "Decision Tree" /\ model.draw % 2 = 1 THEN highest[2] ELSE lowest[2]

\* Whether predict raises: k-nearest-neighbours needs n_neighbors samples.
PredictRaises(model, X) ==
    \/ model.n_fits = 0
    \/ (model.name = "KNN" /\ model.n_train < KnnNeighbors)

\* model.predict(X)
Predict(model, X) ==
    Arr(X.part, X.scaled_by, X.ids, [j \in 1..Size(X) |-> PredictOne(model, X.vals[j])])

(* ------------------------------------------------------------------ *)
(* sklearn.metrics (lines 30-31)                                       *)
(* ------------------------------------------------------------------ *)
\* confusion_matrix(y_true, y_pred): rows are true labels, columns predicted.
confusion_matrix(y_true, y_pred) ==
    LET labels == Range(y_true.vals) \cup Range(y_pred.vals)
        n      == Size(y_true)
    IN  [labels |-> labels,
         counts |-> [t \in labels, p \in labels |->
                       Cardinality({j \in 1..n : y_true.vals[j] = t /\ y_pred.vals[j] = p})],
         of     |-> << Tag(y_true), Tag(y_pred) >>]

\* classification_report(y_true, y_pred): per label the support and the
\* precision and recall in hundredths, and the accuracy.
Ratio(a, b) == IF b = 0 THEN 0 ELSE (100 * a) \div b

classification_report(y_true, y_pred) ==
    LET labels  == Range(y_true.vals) \cup Range(y_pred.vals)
        n       == Size(y_true)
        supp(c) == Cardinality({j \in 1..n : y_true.vals[j] = c})
        pred(c) == Cardinality({j \in 1..n : y_pred.vals[j] = c})
        hit(c)  == Cardinality({j \in 1..n : y_true.vals[j] = c /\ y_pred.vals[j] = c})
    IN  [rows     |-> [c \in labels |->
                         [precision |-> Ratio(hit(c), pred(c)),
                          recall    |-> Ratio(hit(c), supp(c)),
                          support   |-> supp(c)]],
         accuracy |-> Ratio(Cardinality({j \in 1..n : y_true.vals[j] = y_pred.vals[j]}), n),
         support  |-> n,
         of       |-> << Tag(y_true), Tag(y_pred) >>]

MetricsRaise(y_true, y_pred) == Size(y_true) # Size(y_pred) \/ Size(y_true) = 0

(* ------------------------------------------------------------------ *)
(* visualize_classifier (lines 34-50)                                  *)
(* ------------------------------------------------------------------ *)
RECURSIVE MinRange(_, _, _)
MinRange(f, lo, hi) ==
    IF lo = hi THEN f[lo]
    ELSE LET mid == (lo + hi) \div 2
             a   == MinRange(f, lo, mid)
             b   == MinRange(f, mid + 1, hi)
         IN  IF a <= b THEN a ELSE b

RECURSIVE MaxRange(_, _, _)
MaxRange(f, lo, hi) ==
    IF lo = hi THEN f[lo]
    ELSE LET mid == (lo + hi) \div 2
             a   == MaxRange(f, lo, mid)
             b   == MaxRange(f, mid + 1, hi)
         IN  IF a >= b THEN a ELSE b

\* np.arange(start, stop, step): ceil((stop - start) / step) values from
\* start, the end excluded.
ArangeLen(start, stop, step) ==
    IF stop <= start THEN 0 ELSE ((stop - start) + (step - 1)) \div step

Arange(start, stop, step) ==
    [j \in 1..ArangeLen(start, stop, step) |-> start + ((j - 1) * step)]

\* int(v): truncation toward zero, as a fixed-point whole number.
IntOf(v) == IF v >= 0 THEN (v \div One) * One ELSE -(((-v) \div One) * One)

\* X[:, d].min() and X[:, d].max()
ColMin(X, d) == MinRange([j \in 1..Size(X) |-> X.vals[j][d]], 1, Size(X))
ColMax(X, d) == MaxRange([j \in 1..Size(X) |-> X.vals[j][d]], 1, Size(X))

\* The lower end of an axis of the mesh (lines 35-36).
MeshLow(X, d) == ColMin(X, d) - Margin

\* MeshHigh without the padding.
MeshHighNoMargin(X, d) == ColMax(X, d)

\* The exclusive upper end of an axis of the mesh (lines 35-36).
MeshHigh(X, d) == ColMax(X, d) + Margin

\* One axis of the mesh (lines 38-39): its values, and how many there are.
MeshAxis(X, d) ==
    LET lo == MeshLow(X, d)
        hi == MeshHigh(X, d)
    IN  [n |-> ArangeLen(lo, hi, mesh_step_size), at |-> Arange(lo, hi, mesh_step_size)]

\* min() and max() raise on an empty array, predict on an empty mesh.
PlotRaises(classifier, X) == Size(X) = 0 \/ PredictRaises(classifier, X)

\* The figure: the classified mesh (its axes' ends and its shape, every
\* grid point classified by the classifier), the scattered samples, the
\* axis limits and the ticks.
visualize_classifier(classifier, X, y, title) ==
    LET x_axis == MeshAxis(X, 1)
        y_axis == MeshAxis(X, 2)
    IN  [title      |-> title,
         classifier |-> classifier.name,
         shape      |-> << y_axis.n, x_axis.n >>,
         corners    |-> << PredictOne(classifier, << x_axis.at[1], y_axis.at[1] >>),
                           PredictOne(classifier, << x_axis.at[x_axis.n], y_axis.at[y_axis.n] >>) >>,
         scatter    |-> << Tag(X), Tag(y) >>,
         xlim       |-> << MinRange(x_axis.at, 1, x_axis.n), MaxRange(x_axis.at, 1, x_axis.n) >>,
         ylim       |-> << MinRange(y_axis.at, 1, y_axis.n), MaxRange(y_axis.at, 1, y_axis.n) >>,
         xticks     |-> Arange(IntOf(ColMin(X, 1) - One), IntOf(ColMax(X, 1) + One), One),
         yticks     |-> Arange(IntOf(ColMin(X, 2) - One), IntOf(ColMax(X, 2) + One), One)]

(* ------------------------------------------------------------------ *)
(* State of the process and of one run of main()                       *)
(* ------------------------------------------------------------------ *)
VARIABLES
    runs,        \* script runs started so far in this process
    sliders,     \* the four slider values of the current run (lines 86-89)
    np_random,   \* the process-global NumPy generator; it outlives a run
    pc,          \* the next call of main(): [stage, i], i the loop index
    trace,       \* the calls of this run so far, in order
    centers,     \* generate_data's centres
    X, y,        \* the generated samples and labels
    X_train, X_test, y_train, y_test,
    scaler,      \* the StandardScaler
    models,      \* the models dictionary, in insertion order
    frame,       \* locals of the train_and_evaluate_model call in progress
    results,     \* the results dictionary, in insertion order
    tabs,        \* the labels of the tabs st.tabs created
    rendered,    \* what has been written into each tab, in order
    footer,      \* whether the footer line was written
    ref          \* the sliders and outputs of one earlier completed run

vars == << runs, sliders, np_random, pc, trace, centers, X, y, X_train, X_test,
           y_train, y_test, scaler, models, frame, results, tabs, rendered, footer, ref >>

data == << centers, X, y, X_train, X_test, y_train, y_test, scaler >>
learn == << models, frame, results >>
ui == << tabs, rendered, footer >>
proc == << runs, sliders, ref >>

(* ------------------------------------------------------------------ *)
(* The sliders (lines 84-89).  The runs take every slider at the lower *)
(* end of its range, every slider at the upper end, the defaults, and  *)
(* the defaults with the largest number of clusters.                   *)
(* ------------------------------------------------------------------ *)
\* SliderMin with a sample slider that goes down to six samples.
SliderMinTiny ==
    [n_samples |-> 6, cluster_std |-> StdMinTenths,
     random_state |-> RandomStateMin, n_clusters |-> ClustersMin]

SliderMin ==
    [n_samples |-> SamplesMin, cluster_std |-> StdMinTenths,
     random_state |-> RandomStateMin, n_clusters |-> ClustersMin]

SliderMax ==
    [n_samples |-> SamplesMax, cluster_std |-> StdMaxTenths,
     random_state |-> RandomStateMax, n_clusters |-> ClustersMax]

SliderDefault ==
    [n_samples |-> SamplesDefault, cluster_std |-> StdDefaultTenths,
     random_state |-> RandomStateDefault, n_clusters |-> ClustersDefault]

SliderValues ==
    {SliderMin, SliderMax, SliderDefault, [SliderDefault EXCEPT !.n_clusters = ClustersMax]}

\* The global generator of a fresh process is seeded from the system.
EntropyKeys == {1000 + j : j \in 1..NumEntropy}

(* ------------------------------------------------------------------ *)
(* Control flow of main() (lines 91-125)                               *)
(* ------------------------------------------------------------------ *)
At(stage, i) == [stage |-> stage, i |-> i]

TrainStages == {"fit", "predict", "confusion_matrix", "classification_report"}
RenderStages == {"heatmap", "report", "boundary"}
CallStages ==
    {"centers", "blobs", "split", "fit_transform", "transform", "models", "tabs", "footer"}
        \cup TrainStages \cup RenderStages

\* Successor with the scaling moved behind the training loop.
SuccessorScaleLate(p, n_models, n_tabs) ==
    CASE p.stage = "centers"               -> At("blobs", 0)
      [] p.stage = "blobs"                 -> At("split", 0)
      [] p.stage = "split"                 -> At("models", 0)
      [] p.stage = "models"                -> IF n_models >= 1 THEN At("fit", 1) ELSE At("tabs", 0)
      [] p.stage = "fit"                   -> At("predict", p.i)
      [] p.stage = "predict"               -> At("confusion_matrix", p.i)
      [] p.stage = "confusion_matrix"      -> At("classification_report", p.i)
      [] p.stage = "classification_report" ->
            IF p.i < n_models THEN At("fit", p.i + 1) ELSE At("fit_transform", 0)
      [] p.stage = "fit_transform"         -> At("transform", 0)
      [] p.stage = "transform"             -> At("tabs", 0)
      [] p.stage = "tabs"                  -> IF n_tabs >= 1 THEN At("heatmap", 1) ELSE At("footer", 0)
      [] p.stage = "heatmap"               -> At("report", p.i)
      [] p.stage = "report"                -> At("boundary", p.i)
      [] p.stage = "boundary"              ->
            IF p.i < n_tabs THEN At("heatmap", p.i + 1) ELSE At("footer", 0)
      [] p.stage = "footer"                -> At("done", 0)
      [] OTHER                             -> p

\* The call after p when p returns: n_models entries in models (the loop of
\* line 107), n_tabs pairs in zip(tabs, results.items()) (line 112).
Successor(p, n_models, n_tabs) ==
    CASE p.stage = "centers"               -> At("blobs", 0)
      [] p.stage = "blobs"                 -> At("split", 0)
      [] p.stage = "split"                 -> At("fit_transform", 0)
      [] p.stage = "fit_transform"         -> At("transform", 0)
      [] p.stage = "transform"             -> At("models", 0)
      [] p.stage = "models"                -> IF n_models >= 1 THEN At("fit", 1) ELSE At("tabs", 0)
      [] p.stage = "fit"                   -> At("predict", p.i)
      [] p.stage = "predict"               -> At("confusion_matrix", p.i)
      [] p.stage = "confusion_matrix"      -> At("classification_report", p.i)
      [] p.stage = "classification_report" ->
            IF p.i < n_models THEN At("fit", p.i + 1) ELSE At("tabs", 0)
      [] p.stage = "tabs"                  -> IF n_tabs >= 1 THEN At("heatmap", 1) ELSE At("footer", 0)
      [] p.stage = "heatmap"               -> At("report", p.i)
      [] p.stage = "report"                -> At("boundary", p.i)
      [] p.stage = "boundary"              ->
            IF p.i < n_tabs THEN At("heatmap", p.i + 1) ELSE At("footer", 0)
      [] p.stage = "footer"                -> At("done", 0)
      [] OTHER                             -> p

\* OnException with a try/except around the body of the training loop that
\* goes on with the next model.
OnExceptionContinue(p, n_models, n_tabs) ==
    IF p.stage \in TrainStages
    THEN (IF p.i < n_models THEN At("fit", p.i + 1) ELSE At("tabs", 0))
    ELSE At("raised", p.i)

\* Where main() goes when the call at p raises: there is no try/except, the
\* exception ends the run.
OnException(p, n_models, n_tabs) == At("raised", p.i)

ZipLen == IF Len(tabs) <= Len(results) THEN Len(tabs) ELSE Len(results)

Event(p, ok) == [ev |-> p.stage, i |-> p.i, ok |-> ok]

NoFrame == [y_pred |-> EmptyArr, cm |-> <<>>]

\* The call at pc returns.
Return(n_models, n_tabs) ==
    /\ pc' = Successor(pc, n_models, n_tabs)
    /\ trace' = Append(trace, Event(pc, TRUE))

\* The call at pc raises: nothing it would have assigned is assigned, and
\* the exception leaves main(), whose locals go with it.  What was written
\* to the page stays.
Raise ==
    /\ pc' = OnException(pc, Len(models), ZipLen)
    /\ trace' = Append(trace, Event(pc, FALSE))
    /\ centers' = <<>>
    /\ X' = EmptyArr /\ y' = EmptyArr
    /\ X_train' = EmptyArr /\ X_test' = EmptyArr
    /\ y_train' = EmptyArr /\ y_test' = EmptyArr
    /\ scaler' = NewScaler
    /\ models' = <<>>
    /\ frame' = NoFrame
    /\ results' = <<>>
    /\ UNCHANGED << np_random, ui, proc >>

Init ==
    /\ runs = 1
    /\ sliders \in SliderValues
    /\ np_random \in {RandomState(k) : k \in EntropyKeys}
    /\ pc = At("centers", 0)
    /\ trace = <<>>
    /\ centers = <<>>
    /\ X = EmptyArr /\ y = EmptyArr
    /\ X_train = EmptyArr /\ X_test = EmptyArr
    /\ y_train = EmptyArr /\ y_test = EmptyArr
    /\ scaler = NewScaler
    /\ models = <<>>
    /\ frame = NoFrame
    /\ results = <<>>
    /\ tabs = <<>>
    /\ rendered = <<>>
    /\ footer = FALSE
    /\ ref = <<>>

(* ------------------------------------------------------------------ *)
(* The calls of main(), with the arguments main() passes               *)
(* ------------------------------------------------------------------ *)
\* Line 95: X_train = scaler.fit_transform(X_train)
FitTransformCall(sc, xtrain, xtest) ==
    LET fitted == ScalerFit(sc, xtrain)
    IN  [scaler |-> fitted, out |-> ScalerTransform(fitted, xtrain)]

\* TransformCall as a second fit_transform, on the test features.
TransformCallRefit(sc, xtrain, xtest) == FitTransformCall(sc, xtest, xtrain)

\* Line 96: X_test = scaler.transform(X_test)
TransformCall(sc, xtrain, xtest) == [scaler |-> sc, out |-> ScalerTransform(sc, xtest)]

\* TrainArgs evaluating every model on the arrays it was trained on.
TrainArgsNoHoldOut(i) ==
    [X_train |-> X_train, X_test |-> X_train, y_train |-> y_train, y_test |-> y_train]

\* TrainArgs handing the models after the first a training split without
\* its first row.
TrainArgsDropRow(i) ==
    LET rest == [j \in 1..(Size(X_train) - 1) |-> j + 1]
    IN  IF i = 1 \/ Size(X_train) < 2
        THEN [X_train |-> X_train, X_test |-> X_test, y_train |-> y_train, y_test |-> y_test]
        ELSE [X_train |-> Take(X_train, rest, X_train.part), X_test |-> X_test,
              y_train |-> Take(y_train, rest, y_train.part), y_test |-> y_test]

\* Line 108: the arrays main() hands to train_and_evaluate_model for the
\* i-th entry of models.
TrainArgs(i) == [X_train |-> X_train, X_test |-> X_test, y_train |-> y_train, y_test |-> y_test]

\* Line 28: model.fit(X_train, y_train)
FitCall(model, a, g) == FitModel(model, a.X_train, a.y_train, g)

\* Line 29: y_pred = model.predict(X_test)
PredictCall(model, a) == Predict(model, a.X_test)

\* Line 30: cm = confusion_matrix(y_test, y_pred)
CmCall(a, y_pred) == confusion_matrix(a.y_test, y_pred)

\* Line 31: cr = classification_report(y_test, y_pred)
CrCall(a, y_pred) == classification_report(a.y_test, y_pred)

\* TabLabels with the labels in the opposite order.
TabLabelsReversed(ms) == [i \in 1..Len(ms) |-> ms[(Len(ms) + 1) - i].name]

\* Line 111: st.tabs(models.keys())
TabLabels(ms) == [i \in 1..Len(ms) |-> ms[i].name]

\* Line 112: the i-th pair of zip(tabs, results.items())
TabPair(i) == [tab |-> tabs[i], entry |-> results[i]]

\* The estimator object a results entry refers to: fit returns the object
\* it was called on, the one the models dictionary holds.
ModelNamed(name) == models[CHOOSE k \in 1..Len(models) : models[k].name = name]

Element(kind, of, content) == [kind |-> kind, of |-> of, content |-> content]

(* ------------------------------------------------------------------ *)
(* Actions: one per call of main()                                     *)
(* ------------------------------------------------------------------ *)
\* Line 92 (lines 17-19, 22): the centres.
GenerateCenters ==
    /\ pc.stage = "centers"
    /\ LET side == SquareHalfSide * One
           sq   == generate_random_points_in_square(np_random, -side, side, -side, side,
                                                    sliders.n_clusters)
       IN  /\ np_random' = sq.rng
           /\ centers' = sq.centers
    /\ Return(Len(models), ZipLen)
    /\ UNCHANGED << X, y, X_train, X_test, y_train, y_test, scaler, learn, ui, proc >>

\* Line 92 (lines 23-25): the samples.
MakeBlobs ==
    /\ pc.stage = "blobs"
    /\ IF sliders.n_samples < 1 \/ Len(centers) = 0
       THEN Raise
       ELSE /\ LET b == make_blobs(sliders.n_samples, StdUnits(sliders.cluster_std), centers,
                                   sliders.random_state)
               IN  X' = b.X /\ y' = b.y
            /\ Return(Len(models), ZipLen)
            /\ UNCHANGED << np_random, centers, X_train, X_test, y_train, y_test, scaler,
                            learn, ui, proc >>

\* Line 93.
Split ==
    /\ pc.stage = "split"
    /\ IF Size(X) - TestCount(Size(X)) < 1
       THEN Raise
       ELSE /\ LET r == train_test_split(X, y, sliders.random_state)
               IN  /\ X_train' = r.X_train
                   /\ X_test' = r.X_test
                   /\ y_train' = r.y_train
                   /\ y_test' = r.y_test
            /\ Return(Len(models), ZipLen)
            /\ UNCHANGED << np_random, centers, X, y, scaler, learn, ui, proc >>

\* Lines 94-95.
FitTransform ==
    /\ pc.stage = "fit_transform"
    /\ IF Size(X_train) = 0
       THEN Raise
       ELSE /\ LET r == FitTransformCall(NewScaler, X_train, X_test)
               IN  scaler' = r.scaler /\ X_train' = r.out
            /\ Return(Len(models), ZipLen)
            /\ UNCHANGED << np_random, centers, X, y, X_test, y_train, y_test, learn, ui, proc >>

\* Line 96.
Transform ==
    /\ pc.stage = "transform"
    /\ IF scaler.n_fits = 0
       THEN Raise
       ELSE /\ LET r == TransformCall(scaler, X_train, X_test)
               IN  scaler' = r.scaler /\ X_test' = r.out
            /\ Return(Len(models), ZipLen)
            /\ UNCHANGED << np_random, centers, X, y, X_train, y_train, y_test, learn, ui, proc >>

\* Lines 97-106.
MakeModels ==
    /\ pc.stage = "models"
    /\ models' = [i \in 1..NumModels |-> Unfitted(ModelNames[i])]
    /\ results' = <<>>
    /\ Return(Len(models'), ZipLen)
    /\ UNCHANGED << np_random, data, frame, ui, proc >>

\* Line 28, in the call of line 108.
Fit ==
    /\ pc.stage = "fit"
    /\ LET a == TrainArgs(pc.i)
       IN  IF FitRaises(models[pc.i].name, a.X_train, a.y_train)
           THEN Raise
           ELSE /\ LET r == FitCall(models[pc.i], a, np_random)
                   IN  /\ models' = [models EXCEPT ![pc.i] = r.model]
                       /\ np_random' = r.rng
                /\ Return(Len(models), ZipLen)
                /\ UNCHANGED << data, frame, results, ui, proc >>

\* Line 29.
PredictTest ==
    /\ pc.stage = "predict"
    /\ LET a == TrainArgs(pc.i)
       IN  IF PredictRaises(models[pc.i], a.X_test)
           THEN Raise
           ELSE /\ frame' = [frame EXCEPT !.y_pred = PredictCall(models[pc.i], a)]
                /\ Return(Len(models), ZipLen)
                /\ UNCHANGED << np_random, data, models, results, ui, proc >>

\* Line 30.
ConfusionMatrix ==
    /\ pc.stage = "confusion_matrix"
    /\ LET a == TrainArgs(pc.i)
       IN  IF MetricsRaise(a.y_test, frame.y_pred)
           THEN Raise
           ELSE /\ frame' = [frame EXCEPT !.cm = CmCall(a, frame.y_pred)]
                /\ Return(Len(models), ZipLen)
                /\ UNCHANGED << np_random, data, models, results, ui, proc >>

\* Lines 31-32 and the assignment of line 109.
ClassificationReport ==
    /\ pc.stage = "classification_report"
    /\ LET a == TrainArgs(pc.i)
       IN  IF MetricsRaise(a.y_test, frame.y_pred)
           THEN Raise
           ELSE /\ results' = Append(results,
                                     [name   |-> models[pc.i].name,
                                      model  |-> models[pc.i].name,
                                      cm     |-> frame.cm,
                                      cr     |-> CrCall(a, frame.y_pred),
                                      y_pred |-> frame.y_pred])
                /\ frame' = NoFrame
                /\ Return(Len(models), ZipLen)
                /\ UNCHANGED << np_random, data, models, ui, proc >>

\* Line 111.
MakeTabs ==
    /\ pc.stage = "tabs"
    /\ IF Len(models) = 0
       THEN Raise
       ELSE /\ tabs' = TabLabels(models)
            /\ rendered' = [i \in 1..Len(tabs') |-> <<>>]
            /\ Return(Len(models),
                      IF Len(tabs') <= Len(results) THEN Len(tabs') ELSE Len(results))
            /\ UNCHANGED << np_random, data, learn, footer, proc >>

\* Lines 114-120: the subheader and the heatmap of the confusion matrix.
RenderHeatmap ==
    /\ pc.stage = "heatmap"
    /\ LET t == TabPair(pc.i)
       IN  rendered' = [rendered EXCEPT ![pc.i] =
                          @ \o << Element("subheader", t.entry.name, t.entry.name),
                                  Element("heatmap", t.entry.name, t.entry.cm) >>]
    /\ Return(Len(models), ZipLen)
    /\ UNCHANGED << np_random, data, learn, tabs, footer, proc >>

\* Lines 121-122: the classification report.
RenderReport ==
    /\ pc.stage = "report"
    /\ LET t == TabPair(pc.i)
       IN  rendered' = [rendered EXCEPT ![pc.i] =
                          Append(@, Element("report", t.entry.name, t.entry.cr))]
    /\ Return(Len(models), ZipLen)
    /\ UNCHANGED << np_random, data, learn, tabs, footer, proc >>

\* Line 123: the decision-boundary plot.
RenderBoundary ==
    /\ pc.stage = "boundary"
    /\ LET t == TabPair(pc.i)
           m == ModelNamed(t.entry.model)
       IN  IF PlotRaises(m, X_train)
           THEN Raise
           ELSE /\ rendered' = [rendered EXCEPT ![pc.i] =
                                  Append(@, Element("boundary", m.name,
                                                    visualize_classifier(m, X_train, y_train,
                                                                         t.entry.name)))]
                /\ Return(Len(models), ZipLen)
                /\ UNCHANGED << np_random, data, learn, tabs, footer, proc >>

\* Line 125.
WriteFooter ==
    /\ pc.stage = "footer"
    /\ footer' = TRUE
    /\ Return(Len(models), ZipLen)
    /\ UNCHANGED << np_random, data, learn, tabs, rendered, proc >>

\* A library call fails for a reason of its own (memory, an interrupt).
Fault ==
    /\ pc.stage \in CallStages
    /\ Raise

\* What a completed run produced: the generated data, the split, the fitted
\* models, and each model's predictions, confusion matrix and report.
Outputs ==
    [X |-> X.vals, y |-> y.vals, X_train |-> X_train.vals, X_test |-> X_test.vals,
     y_train |-> y_train.vals, y_test |-> y_test.vals, models |-> models, results |-> results]

Snapshot == [sliders |-> sliders, centers |-> centers, outputs |-> Outputs]

\* Streamlit reruns the script from the top when a slider changes: after
\* the run ended, or at one of the run's st.* calls.  Only the process's
\* global generator survives.
RerunStages == {"done", "raised", "tabs", "footer"} \cup RenderStages

Rerun ==
    /\ runs < MaxRuns
    /\ pc.stage \in RerunStages
    /\ runs' = runs + 1
    /\ sliders' \in SliderValues
    /\ ref' \in (IF pc.stage = "done" THEN {ref, << Snapshot >>} ELSE {ref})
    /\ pc' = At("centers", 0)
    /\ trace' = <<>>
    /\ centers' = <<>>
    /\ X' = EmptyArr /\ y' = EmptyArr
    /\ X_train' = EmptyArr /\ X_test' = EmptyArr
    /\ y_train' = EmptyArr /\ y_test' = EmptyArr
    /\ scaler' = NewScaler
    /\ models' = <<>>
    /\ frame' = NoFrame
    /\ results' = <<>>
    /\ tabs' = <<>>
    /\ rendered' = <<>>
    /\ footer' = FALSE
    /\ UNCHANGED np_random

Step ==
    \/ GenerateCenters
    \/ MakeBlobs
    \/ Split
    \/ FitTransform
    \/ Transform
    \/ MakeModels
    \/ Fit
    \/ PredictTest
    \/ ConfusionMatrix
    \/ ClassificationReport
    \/ MakeTabs
    \/ RenderHeatmap
    \/ RenderReport
    \/ RenderBoundary
    \/ WriteFooter

Next == Step \/ Fault \/ Rerun

Spec == Init /\ [][Next]_vars

(* ------------------------------------------------------------------ *)
(* Runs in which a library call raises only on invalid input           *)
(* ------------------------------------------------------------------ *)
NextValid == Step \/ Rerun

\* A started run is carried on: the script is synchronous, nothing waits.
FairSpec == Init /\ [][NextValid]_vars /\ WF_vars(Step)

(* ------------------------------------------------------------------ *)
(* visualize_classifier on its own: the call of line 123 for one tab,  *)
(* with any small array of samples as X, among them a single sample,   *)
(* samples sharing a coordinate, and coordinates between mesh points.  *)
(* ------------------------------------------------------------------ *)
MeshCoords == {-1, 0, mesh_step_size, One + 1}

MeshSamples ==
    UNION {[1..n -> MeshCoords \X MeshCoords] : n \in 1..MeshPoints}

InitMesh ==
    \E pts \in MeshSamples :
        LET ids   == [j \in 1..Len(pts) |-> j]
            xs    == Arr("train", "train", ids, pts)
            ys    == Arr("train", "none", ids, [j \in 1..Len(pts) |-> (j - 1) % ClustersMin])
            m     == FitModel(Unfitted(ModelNames[2]), xs, ys, RandomState(CentersSeed)).model
            pred  == Predict(m, xs)
        IN  /\ runs = 1
            /\ sliders = SliderDefault
            /\ np_random = RandomState(CentersSeed)
            /\ pc = At("boundary", 1)
            /\ trace = <<>>
            /\ centers = <<>>
            /\ X = EmptyArr /\ y = EmptyArr
            /\ X_train = xs /\ y_train = ys
            /\ X_test = xs /\ y_test = ys
            /\ scaler = NewScaler
            /\ models = << m >>
            /\ frame = NoFrame
            /\ results = << [name |-> m.name, model |-> m.name,
                             cm |-> confusion_matrix(ys, pred),
                             cr |-> classification_report(ys, pred), y_pred |-> pred] >>
            /\ tabs = << m.name >>
            /\ rendered = << << >> >>
            /\ footer = FALSE
            /\ ref = <<>>

NextMesh == RenderBoundary \/ WriteFooter

SpecMesh == InitMesh /\ [][NextMesh]_vars

(* ------------------------------------------------------------------ *)
(* Properties                                                          *)
(* ------------------------------------------------------------------ *)
StageRank(ev) ==
    CASE ev = "centers"       -> 1
      [] ev = "blobs"         -> 2
      [] ev = "split"         -> 3
      [] ev = "fit_transform" -> 4
      [] ev = "transform"     -> 5
      [] ev = "models"        -> 6
      [] ev \in TrainStages   -> 7
      [] ev = "tabs"          -> 8
      [] ev \in RenderStages  -> 9
      [] OTHER                -> 10

\* The call (ev, i) returned before the q-th call of the run started.
ReturnedBefore(q, ev, i) ==
    \E p \in 1..(q - 1) : trace[p] = [ev |-> ev, i |-> i, ok |-> TRUE]

\* C1: in every run the stages of the pipeline occur in order and never out
\* of it: the data is generated before the split, the split is done before
\* the scaler is fitted and applied, the scaling is done before any model is
\* fitted, a model is fitted before it is evaluated, and all six models are
\* evaluated before anything is rendered into a tab.
C1_StagesInOrder ==
    \A q \in 1..Len(trace) :
        LET e == trace[q]
        IN  /\ \A p \in 1..(q - 1) : StageRank(trace[p].ev) <= StageRank(e.ev)
            /\ (e.ev = "blobs") => ReturnedBefore(q, "centers", 0)
            /\ (e.ev = "split") => ReturnedBefore(q, "blobs", 0)
            /\ (e.ev = "fit_transform") => ReturnedBefore(q, "split", 0)
            /\ (e.ev = "transform") => ReturnedBefore(q, "fit_transform", 0)
            /\ (e.ev = "fit") => ReturnedBefore(q, "transform", 0)
            /\ (e.ev = "predict") => ReturnedBefore(q, "fit", e.i)
            /\ (e.ev = "confusion_matrix") => ReturnedBefore(q, "predict", e.i)
            /\ (e.ev = "classification_report") => ReturnedBefore(q, "confusion_matrix", e.i)
            /\ (e.ev \in RenderStages) =>
                  \A m \in 1..6 : /\ ReturnedBefore(q, "fit", m)
                                  /\ ReturnedBefore(q, "predict", m)
                                  /\ ReturnedBefore(q, "confusion_matrix", m)
                                  /\ ReturnedBefore(q, "classification_report", m)

\* A run went through every stage and rendered the last tab.
C1_Witness ==
    /\ pc.stage = "done"
    /\ trace[Len(trace) - 1] = [ev |-> "boundary", i |-> 6, ok |-> TRUE]

\* C2: a run that completes has rendered exactly six tabs, one per entry of
\* models and in that order; the i-th tab is labelled with the name of the
\* i-th entry of results and holds, in this order, the heatmap of that
\* entry's confusion matrix, its classification report and the decision
\* boundary of its trained model.
C2_TabsMatchModels ==
    (pc.stage = "done") =>
        /\ Len(tabs) = 6
        /\ Len(rendered) = 6
        /\ Len(results) = 6
        /\ \A i \in 1..Len(tabs) :
              /\ tabs[i] = ModelNames[i]
              /\ tabs[i] = models[i].name
              /\ tabs[i] = results[i].name
              /\ Len(rendered[i]) = 4
              /\ rendered[i][1] = Element("subheader", tabs[i], tabs[i])
              /\ rendered[i][2] = Element("heatmap", tabs[i], results[i].cm)
              /\ rendered[i][3] = Element("report", tabs[i], results[i].cr)
              /\ rendered[i][4].kind = "boundary"
              /\ rendered[i][4].of = tabs[i]
              /\ rendered[i][4].content.classifier = results[i].model
              /\ rendered[i][4].content.title = tabs[i]

\* A completed run with its six tabs filled.
C2_Witness ==
    /\ pc.stage = "done"
    /\ Len(tabs) = 6
    /\ \A i \in 1..6 : Len(rendered[i]) = 4

\* C4: there is no validation, retry or recovery.  When a call raises the run
\* stops there: the failed call is the last call of the run, no call is made
\* twice, nothing but a rerun can follow, and when the failed call is the fit
\* or the evaluation of a model no tab holds anything, whatever models were
\* trained before.
C4_RaiseEndsRun ==
    /\ \A q \in 1..(Len(trace) - 1) : trace[q].ok
    /\ \A p, q \in 1..Len(trace) :
          (p < q) => << trace[p].ev, trace[p].i >> # << trace[q].ev, trace[q].i >>
    /\ (pc.stage = "raised") <=> (trace # <<>> /\ ~trace[Len(trace)].ok)
    /\ (pc.stage = "raised") => ~ENABLED (Step \/ Fault)
    /\ (pc.stage = "raised" /\ trace[Len(trace)].ev \in TrainStages) =>
          /\ tabs = <<>>
          /\ rendered = <<>>
          /\ ~footer

\* The evaluation of the third model raised, after two models were trained
\* and evaluated.
C4_Witness ==
    /\ pc.stage = "raised"
    /\ trace[Len(trace)] = [ev |-> "confusion_matrix", i |-> 3, ok |-> FALSE]
    /\ ReturnedBefore(Len(trace), "classification_report", 2)
    /\ rendered = <<>>

\* The calls of the current run that returned and draw from the global
\* generator: the fits of the models built without a random_state.
GlobalDraws ==
    Cardinality({q \in 1..Len(trace) :
                    /\ trace[q].ev = "fit"
                    /\ trace[q].ok
                    /\ DrawsFromGlobal(ModelNames[trace[q].i])})

\* C3: execution is stateless between runs.  Once the centres of a run are
\* generated the process-global generator is the one seeded with 42 and
\* advanced by this run's own draws only, every value a classifier drew from
\* it is a value of that reseeded generator, and a run that completes with
\* the slider values of an earlier completed run has the outputs of that run
\* (data, split, fitted models, predictions, confusion matrices, reports),
\* whatever ran in between and whatever the generator held at the start.
C3_StatelessBetweenRuns ==
    /\ (trace # <<>> /\ trace[1].ok) =>
          np_random = Advance(RandomState(CentersSeed), (2 * sliders.n_clusters) + GlobalDraws)
    /\ \A i \in 1..Len(models) :
          (models[i].n_fits > 0 /\ DrawsFromGlobal(models[i].name)) =>
              \E j \in 0..1 :
                  models[i].draw = Peek(RandomState(CentersSeed), (2 * sliders.n_clusters) + j)
    /\ (pc.stage = "done" /\ ref # <<>> /\ ref[1].sliders = sliders) =>
          Outputs = ref[1].outputs

\* A second run completed with the slider values of the first, completed,
\* run of the process, both having trained the forest from the generator.
C3_Witness ==
    /\ pc.stage = "done"
    /\ runs = 2
    /\ ref # <<>>
    /\ ref[1].sliders = sliders
    /\ models[5].draw >= 0
    /\ results = ref[1].outputs.results

\* C9: the centres depend only on the number of clusters.  The centres of a
\* run are n_clusters points of the square [-4, 4] x [-4, 4], they are the
\* centres of every earlier completed run with the same number of clusters
\* whatever its other three sliders were, and they are the points
\* generate_random_points_in_square yields whatever the generator held.
C9_CentersDependOnClustersOnly ==
    (centers # <<>>) =>
        /\ Len(centers) = sliders.n_clusters
        /\ \A c \in 1..Len(centers) :
              /\ -(SquareHalfSide * One) <= centers[c][1]
              /\ centers[c][1] <= SquareHalfSide * One
              /\ -(SquareHalfSide * One) <= centers[c][2]
              /\ centers[c][2] <= SquareHalfSide * One
        /\ (ref # <<>> /\ ref[1].sliders.n_clusters = sliders.n_clusters) =>
              centers = ref[1].centers
        /\ \A k \in EntropyKeys :
              centers = generate_random_points_in_square(
                           RandomState(k), -(SquareHalfSide * One), SquareHalfSide * One,
                           -(SquareHalfSide * One), SquareHalfSide * One,
                           sliders.n_clusters).centers

\* A run has the centres of an earlier run that had the same number of
\* clusters and another random state, sample count and deviation, and it
\* generated other samples from them.
C9_Witness ==
    /\ centers # <<>>
    /\ X.vals # <<>>
    /\ ref # <<>>
    /\ ref[1].sliders.n_clusters = sliders.n_clusters
    /\ ref[1].sliders.random_state # sliders.random_state
    /\ ref[1].sliders.n_samples # sliders.n_samples
    /\ ref[1].sliders.cluster_std # sliders.cluster_std
    /\ ref[1].centers = centers
    /\ ref[1].outputs.X # X.vals

RECURSIVE SumOver(_, _)
SumOver(f, S) ==
    IF S = {} THEN 0
    ELSE LET x == CHOOSE e \in S : TRUE
         IN  f[x] + SumOver(f, S \ {x})

\* The number of samples a confusion matrix tabulates.
CmTotal(cm) == SumOver(cm.counts, cm.labels \X cm.labels)

\* A confusion matrix and a report tabulate the test split: every test
\* sample once, in the row of its true label.
OfTestSplit(cm, cr, y_pred) ==
    /\ y_pred.part = "test"
    /\ y_pred.ids = X_test.ids
    /\ y_pred.ids = y_test.ids
    /\ cm.of[1] = Tag(y_test) /\ cm.of[1].part = "test"
    /\ cm.of[2] = Tag(y_pred)
    /\ CmTotal(cm) = Size(X_test)
    /\ \A t \in cm.labels :
          SumOver([p \in cm.labels |-> cm.counts[t, p]], cm.labels)
             = Cardinality({j \in 1..Size(y_test) : y_test.vals[j] = t})
    /\ (cr # <<>>) =>
          /\ cr.of = cm.of
          /\ cr.support = Size(X_test)

\* C5: the confusion matrices tabulate the held-out test split only.  The
\* split puts every generated sample into exactly one of the training and
\* the test split, with its own label; every fitted model was fitted on the
\* training split; every confusion matrix and report was computed from the
\* test split's true labels and the model's predictions for the test split,
\* and the entries of every confusion matrix sum to the test-split size.
C5_HeldOutTestSplit ==
    /\ (X_train.part = "train") =>
          /\ Size(X_train) + Size(X_test) = sliders.n_samples
          /\ Size(X_train) >= 1 /\ Size(X_test) >= 1
          /\ Range(X_train.ids) \cap Range(X_test.ids) = {}
          /\ Range(X_train.ids) \cup Range(X_test.ids) = 1..sliders.n_samples
          /\ y_train.ids = X_train.ids
          /\ y_test.ids = X_test.ids
          /\ \A j \in 1..Size(y_train) : y_train.vals[j] = y.vals[y_train.ids[j]]
          /\ \A j \in 1..Size(y_test) : y_test.vals[j] = y.vals[y_test.ids[j]]
          /\ (X_train.scaled_by = "none") =>
                \A j \in 1..Size(X_train) : X_train.vals[j] = X.vals[X_train.ids[j]]
          /\ (X_test.scaled_by = "none") =>
                \A j \in 1..Size(X_test) : X_test.vals[j] = X.vals[X_test.ids[j]]
    /\ \A i \in 1..Len(models) :
          (models[i].n_fits > 0) =>
              /\ models[i].fitted_on.part = "train"
              /\ models[i].labels_of.part = "train"
              /\ models[i].n_train = Size(X_train)
    /\ (frame.cm # <<>>) => OfTestSplit(frame.cm, <<>>, frame.y_pred)
    /\ \A i \in 1..Len(results) :
          OfTestSplit(results[i].cm, results[i].cr, results[i].y_pred)

\* All six models are evaluated, each confusion matrix with entries off the
\* diagonal or on it summing to the size of a test split smaller than the
\* training split.
C5_Witness ==
    /\ Len(results) = 6
    /\ Size(X_test) >= 1
    /\ Size(X_test) < Size(X_train)
    /\ \A i \in 1..6 : CmTotal(results[i].cm) = Size(X_test)
    /\ \E i \in 1..6 : \E t, p \in results[i].cm.labels :
          t # p /\ results[i].cm.counts[t, p] > 0

\* The i-th fit of the run returned.
FitReturned(i) == \E q \in 1..Len(trace) : trace[q] = [ev |-> "fit", i |-> i, ok |-> TRUE]

C6_State ==
    LET seen == Seen(X_train, y_train)
    IN  /\ \A i \in 1..Len(models) :
              /\ models[i].n_fits <= 1
              /\ (models[i].n_fits = 1) <=> FitReturned(i)
              /\ TrainArgs(i) = TrainArgs(1)
              /\ (models[i].n_fits = 1) =>
                    /\ models[i].fitted_on = Tag(X_train)
                    /\ models[i].fitted_on = [part |-> "train", scaled_by |-> "train"]
                    /\ models[i].labels_of = Tag(y_train)
                    /\ models[i].n_train = Size(X_train)
                    /\ models[i].seen = seen
        /\ (pc.stage \in ({"tabs", "footer", "done"} \cup RenderStages)) =>
              /\ Len(models) = 6
              /\ \A i \in 1..6 : models[i].n_fits = 1
        /\ \A i \in 1..Len(results) :
              /\ Tag(results[i].y_pred) = Tag(X_test)
              /\ Tag(X_test) = [part |-> "test", scaled_by |-> "train"]
              /\ results[i].y_pred.ids = X_test.ids
              /\ results[i].cm.of = << Tag(y_test), Tag(X_test) >>
              /\ results[i].cr.of = << Tag(y_test), Tag(X_test) >>

\* A call of train_and_evaluate_model that returns leaves the four arrays
\* it was given as they were.
C6_Frame ==
    (pc.stage \in TrainStages /\ pc'.stage \in (TrainStages \cup {"tabs"})) =>
        UNCHANGED << X_train, X_test, y_train, y_test >>

\* C6: the six classifiers get identical inputs.  Every call of the training
\* loop is handed the same four arrays and leaves them unchanged; every
\* model is fitted at most once, and exactly once in a run that reaches the
\* tabs; every fitted model was fitted on the scaled training split as it is
\* now, and every evaluation was made on the scaled test split as it is now.
C6_IdenticalInputs == [](C6_State) /\ [][C6_Frame]_vars

\* The sixth model is fitted, after five others were fitted and evaluated
\* on the same arrays.
C6_Witness ==
    /\ pc = At("predict", 6)
    /\ Len(results) = 5
    /\ \A i \in 1..6 : models[i].n_fits = 1 /\ models[i].seen = models[1].seen
    /\ \E i, j \in 1..6 : models[i].centroids # models[j].centroids

\* The training rows as generated, before any scaling.
RawTrain == Take(X, X_train.ids, "train")

\* The test rows as generated, before any scaling.
RawTest == Take(X, X_test.ids, "test")

\* C8: feature scaling never uses the test split.  The scaler is fitted at
\* most once in a run, by the fit_transform call; its parameters are the
\* means and deviations of the unscaled training rows; the test features
\* are scaled only after that, with these parameters; and neither the
\* scaler nor any model was fitted on the test split.
C8_ScalerFittedOnTrainOnly ==
    /\ scaler.n_fits <= 1
    /\ (pc.stage # "raised") =>
          ((scaler.n_fits = 1) <=>
              (\E q \in 1..Len(trace) : trace[q] = [ev |-> "fit_transform", i |-> 0, ok |-> TRUE]))
    /\ (scaler.n_fits = 1) =>
          /\ scaler.fitted_on = [part |-> "train", scaled_by |-> "none"]
          /\ scaler = ScalerFit(NewScaler, RawTrain)
          /\ X_train.scaled_by = "train"
          /\ X_train.vals = ScalerTransform(scaler, RawTrain).vals
    /\ (scaler.n_fits = 0) => (X_train.scaled_by = "none" /\ X_test.scaled_by = "none")
    /\ X_test.scaled_by \in {"none", "train"}
    /\ (X_test.scaled_by = "train") =>
          /\ scaler.n_fits = 1
          /\ X_test.part = "test"
          /\ X_test.vals = ScalerTransform(scaler, RawTest).vals
          /\ \E p, q \in 1..Len(trace) :
                /\ p < q
                /\ trace[p] = [ev |-> "fit_transform", i |-> 0, ok |-> TRUE]
                /\ trace[q] = [ev |-> "transform", i |-> 0, ok |-> TRUE]
    /\ \A i \in 1..Len(models) :
          (models[i].n_fits > 0) =>
              /\ models[i].fitted_on.part = "train"
              /\ models[i].fitted_on.scaled_by = "train"
              /\ models[i].labels_of.part = "train"

\* The test features are scaled, with a scaler whose parameters are not the
\* ones a fit on the test rows would have given.
C8_Witness ==
    /\ pc.stage = "models"
    /\ scaler.n_fits = 1
    /\ X_test.scaled_by = "train"
    /\ scaler.mean # ScalerFit(NewScaler, RawTest).mean

\* The calls of a run that goes through: six before the loop, four per
\* model, the tabs, three per tab, the footer.
RunLength == 8 + (7 * NumModels)

Figures ==
    UNION {{rendered[i][k].content :
               k \in {n \in 1..Len(rendered[i]) : rendered[i][n].kind = "boundary"}} :
           i \in 1..Len(rendered)}

\* C10: the classified mesh covers every plotted sample.  For both features
\* the mesh is not empty, starts at the smallest value minus 1.0 and ends
\* less than one step below, or exactly one step below, the largest value
\* plus 1.0; the axis limits are its first and last value; and every sample
\* lies strictly between them.
C10_MeshCoversSamples ==
    \A fig \in Figures :
        /\ fig.shape[1] >= 1 /\ fig.shape[2] >= 1
        /\ fig.xlim[1] = ColMin(X_train, 1) - One
        /\ fig.ylim[1] = ColMin(X_train, 2) - One
        /\ fig.xlim[2] = fig.xlim[1] + ((fig.shape[2] - 1) * mesh_step_size)
        /\ fig.ylim[2] = fig.ylim[1] + ((fig.shape[1] - 1) * mesh_step_size)
        /\ ((ColMax(X_train, 1) + One) - fig.xlim[2]) \in 1..mesh_step_size
        /\ ((ColMax(X_train, 2) + One) - fig.ylim[2]) \in 1..mesh_step_size
        /\ \A j \in 1..Size(X_train) :
              /\ fig.xlim[1] < X_train.vals[j][1] /\ X_train.vals[j][1] < fig.xlim[2]
              /\ fig.ylim[1] < X_train.vals[j][2] /\ X_train.vals[j][2] < fig.ylim[2]

\* The mesh was drawn for samples that all have the same first feature and
\* whose second features are a distance apart that is no multiple of the
\* step.
C10_Witness ==
    /\ pc.stage = "done"
    /\ Figures # {}
    /\ Size(X_train) = 2
    /\ X_train.vals[1][1] = X_train.vals[2][1]
    /\ (X_train.vals[2][2] - X_train.vals[1][2]) % mesh_step_size # 0
    /\ \A fig \in Figures : fig.shape[2] = (2 * One) \div mesh_step_size

====
